---------------------------- MODULE Spec2Model ----------------------------
(***************************************************************************)
(* A model of the nhr request helper library: the URL assembler            *)
(* (MontageUrl), the request builder/executor (HttpCaller, createRequest   *)
(* and the With... options) and the response decoders (ResponseToStruct,   *)
(* ResponseToMap).                                                         *)
(*                                                                         *)
(* Go strings are modelled as sequences of one-character strings, so that  *)
(* indexing, substring search, escaping and parsing are computed and not   *)
(* assumed.                                                                *)
(***************************************************************************)
EXTENDS Integers, Sequences, FiniteSets, TLC

VARIABLES
    muPc,       \* MontageUrl: "idle" | "returned" | "panicked"
    muArgs,     \* MontageUrl: the arguments of the call
    muRet,      \* MontageUrl: the string returned
    pc,         \* HttpCaller: the step the call is at
    args,       \* HttpCaller: method, url and options of the call
    RequestIns, \* the HttpRequests descriptor of the call
    optIdx,     \* the index of the next option to apply
    urlObj,     \* createRequest: the parsed URL
    req,        \* createRequest: the outbound *http.Request
    hdrTodo,    \* entries of RequestIns.Headers the range loop has not visited
    doCalls,    \* the number of calls of http.DefaultClient.Do
    wire,       \* the requests that went out on the network
    ret,        \* what HttpCaller returned: "none" | "nil" | "response"
    failure,    \* the failure the call ran into, "" if none
    dPc,        \* decoding: "idle" | "toBytes" | "unmarshal" | "decode" | "done" | "panicked"
    dArgs,      \* decoding: the entry point, the response and the target as given
    stream,     \* the response body stream: reads and Close calls made on it
    bytes,      \* ResponseToStruct: responseBytesSlice
    target,     \* ResponseToStruct: the structure v points to
    dErr,       \* ResponseToStruct: the error returned, "" for nil
    mapRet      \* ResponseToMap: the map returned

muVars == <<muPc, muArgs, muRet>>
callVars == <<pc, args, RequestIns, optIdx, urlObj, req, hdrTodo, doCalls, wire,
              ret, failure>>

decVars == <<dPc, dArgs, stream, bytes, target, dErr, mapRet>>

vars == <<muVars, callVars, decVars>>

(***************************************************************************)
(* Bounds of the model.                                                    *)
(***************************************************************************)
MaxHostLen == 2
MaxPathLen == 3
MaxSegs == 2

(***************************************************************************)
(* Strings.                                                                *)
(***************************************************************************)
SeqsUpTo(S, n) == UNION {[1..k -> S] : k \in 0..n}

\* F applied to the value of e, which is computed once
Eval(e, F(_)) == CHOOSE r \in {F(x) : x \in {e}} : TRUE

RECURSIVE Concat(_)
Concat(ss) == IF ss = <<>> THEN <<>> ELSE Head(ss) \o Concat(Tail(ss))

\* strings.Contains(s, substr)
Contains(s, substr) ==
    \E i \in 0..(Len(s) - Len(substr)) : SubSeq(s, i + 1, i + Len(substr)) = substr

Digit(d) == <<"0", "1", "2", "3", "4", "5", "6", "7", "8", "9">>[d + 1]

RECURSIVE Itoa(_)
Itoa(n) == IF n < 10 THEN <<Digit(n)>> ELSE Itoa(n \div 10) \o <<Digit(n % 10)>>

\* fmt.Sprintf("%v", v) for the values a path parameter may hold: a string
\* (field s) prints as itself, an integer (field n) in decimal.
SprintV(v) ==
    CASE v.t = "str" -> v.s
      [] v.t = "int" -> IF v.n < 0 THEN <<"-">> \o Itoa(-v.n) ELSE Itoa(v.n)

Https == <<"h", "t", "t", "p", "s", ":", "/", "/">>

(***************************************************************************)
(* MontageUrl                                                              *)
(***************************************************************************)
\* the loop of MontageUrl: newPathParam += fmt.Sprintf("/%v", v)
RECURSIVE NewPathParam(_)
\* variant: the segments joined without the "/" before each
NewPathParamNoSeparator(pathParam) ==
    Concat([i \in 1..Len(pathParam) |-> SprintV(pathParam[i])])

NewPathParam(pathParam) ==
    IF pathParam = <<>> THEN <<>>
    ELSE <<"/">> \o SprintV(Head(pathParam)) \o NewPathParam(Tail(pathParam))

\* The result of a call: ret is meaningful when the call did not panic.
\* apiUrl[0] on an empty apiUrl is an index out of range: a run-time panic.
MontageUrl(host, apiUrl, pathParam) ==
    IF Len(apiUrl) = 0
    THEN [panic |-> TRUE, ret |-> <<>>]
    ELSE IF <<apiUrl[1]>> # <<"/">> \/ Contains(apiUrl, host)
    THEN [panic |-> FALSE, ret |-> <<>>]
    ELSE IF Len(pathParam) = 0
    THEN [panic |-> FALSE, ret |-> Https \o host \o apiUrl]
    ELSE [panic |-> FALSE, ret |-> Https \o host \o apiUrl \o NewPathParam(pathParam)]

HostChars == {"a", "b"}
PathChars == {"/", "a", "b"}
Hosts == SeqsUpTo(HostChars, MaxHostLen)
Paths == SeqsUpTo(PathChars, MaxPathLen)
StrV(s) == [t |-> "str", s |-> s, n |-> 0]
IntV(n) == [t |-> "int", s |-> <<>>, n |-> n]
SegValues == {StrV(<<"a">>), StrV(<<>>), IntV(334), IntV(-7)}
SegLists == SeqsUpTo(SegValues, MaxSegs)

NoArgs == [host |-> <<>>, apiUrl |-> <<>>, pathParam |-> <<>>]

InitMontage ==
    /\ muPc = "idle"
    /\ muArgs = NoArgs
    /\ muRet = <<>>

CallMontageUrl ==
    /\ muPc = "idle"
    /\ \E host \in Hosts, apiUrl \in Paths, pathParam \in SegLists :
         LET r == MontageUrl(host, apiUrl, pathParam) IN
           /\ muArgs' = [host |-> host, apiUrl |-> apiUrl, pathParam |-> pathParam]
           /\ muPc' = IF r.panic THEN "panicked" ELSE "returned"
           /\ muRet' = r.ret
    /\ UNCHANGED <<callVars, decVars>>

(***************************************************************************)
(* Characters, maps and the library conversions the request builder uses.  *)
(* A Go map is a set of [k, v] entries with distinct keys; ranging over it *)
(* visits the entries in any order.                                        *)
(***************************************************************************)
LowerLetters == <<"a", "b", "c", "e", "g", "h", "k", "n", "o", "p", "s", "t", "v", "x", "y">>
UpperLetters == <<"A", "B", "C", "E", "G", "H", "K", "N", "O", "P", "S", "T", "V", "X", "Y">>
Digits == {"0", "1", "2", "3", "4", "5", "6", "7", "8", "9"}

IsLower(c) == \E i \in 1..Len(LowerLetters) : LowerLetters[i] = c
IsUpper(c) == \E i \in 1..Len(UpperLetters) : UpperLetters[i] = c
IsLetter(c) == IsLower(c) \/ IsUpper(c)
ToUpperChar(c) ==
    IF IsLower(c) THEN UpperLetters[CHOOSE i \in 1..Len(LowerLetters) : LowerLetters[i] = c]
    ELSE c
ToLowerChar(c) ==
    IF IsUpper(c) THEN LowerLetters[CHOOSE i \in 1..Len(UpperLetters) : UpperLetters[i] = c]
    ELSE c

\* strings.ToUpper, strings.ToLower
ToUpper(s) == [i \in 1..Len(s) |-> ToUpperChar(s[i])]
ToLower(s) == [i \in 1..Len(s) |-> ToLowerChar(s[i])]

\* strings.Index(s, c) for a one-character c: the first position of c, 0 if none
IndexOf(s, c) ==
    IF \E i \in 1..Len(s) : s[i] = c
    THEN CHOOSE i \in 1..Len(s) : s[i] = c /\ \A j \in 1..(i - 1) : s[j] # c
    ELSE 0
LastIndexOf(s, c) ==
    IF \E i \in 1..Len(s) : s[i] = c
    THEN CHOOSE i \in 1..Len(s) : s[i] = c /\ \A j \in (i + 1)..Len(s) : s[j] # c
    ELSE 0
Count(s, c) == Cardinality({i \in 1..Len(s) : s[i] = c})
From(s, i) == SubSeq(s, i, Len(s))
HasPrefix(s, pre) == Len(s) >= Len(pre) /\ SubSeq(s, 1, Len(pre)) = pre

\* The byte value of the characters that occur in map keys, for sorting.
ByteOf(c) ==
    CASE c = " " -> 32 [] c = "#" -> 35 [] c = "&" -> 38 [] c = "1" -> 49
      [] c = "2" -> 50 [] c = "=" -> 61 [] c = "a" -> 97 [] c = "b" -> 98
      [] c = "k" -> 107 [] c = "x" -> 120 [] OTHER -> 0

RECURSIVE StrLess(_, _)
StrLess(a, b) ==
    IF b = <<>> THEN FALSE
    ELSE IF a = <<>> THEN TRUE
    ELSE IF ByteOf(Head(a)) # ByteOf(Head(b)) THEN ByteOf(Head(a)) < ByteOf(Head(b))
    ELSE StrLess(Tail(a), Tail(b))

MapKeys(m) == {e.k : e \in m}
MapGet(m, k) == (CHOOSE e \in m : e.k = k).v
MapSet(m, k, v) == {e \in m : e.k # k} \union {[k |-> k, v |-> v]}
Entry(k, v) == [k |-> k, v |-> v]

\* the keys of a map in increasing byte order (sort.Strings / slices.Sorted)
RECURSIVE SortedKeys(_)
SortedKeys(ks) ==
    IF ks = {} THEN <<>>
    ELSE LET least == CHOOSE k \in ks : \A o \in ks \ {k} : StrLess(k, o)
         IN <<least>> \o SortedKeys(ks \ {least})

\* url.QueryEscape of one character: unreserved characters stay, a space
\* becomes "+", anything else is percent-encoded.
QueryEscapeChar(c) ==
    CASE c = " " -> <<"+">>
      [] c = "#" -> <<"%", "2", "3">>
      [] c = "&" -> <<"%", "2", "6">>
      [] c = "=" -> <<"%", "3", "D">>
      [] c = "?" -> <<"%", "3", "F">>
      [] c = "/" -> <<"%", "2", "F">>
      [] OTHER -> <<c>>
QueryEscape(s) == Concat([i \in 1..Len(s) |-> QueryEscapeChar(s[i])])

\* url.Values.Encode: "k=v" for each key in sorted order, joined by "&"
RECURSIVE EncodePairs(_, _)
EncodePairs(m, keys) ==
    IF keys = <<>> THEN <<>>
    ELSE QueryEscape(Head(keys)) \o <<"=">> \o QueryEscape(MapGet(m, Head(keys)))
         \o (IF Tail(keys) = <<>> THEN <<>> ELSE <<"&">> \o EncodePairs(m, Tail(keys)))
ValuesEncode(m) == EncodePairs(m, SortedKeys(MapKeys(m)))

\* json.Marshal of a map[string]interface{}: a nil map is null, keys are
\* sorted, a value of an unsupported kind (a channel, a func) is an error.
Quote(s) == <<"\"">> \o s \o <<"\"">>
MarshalValue(v) == IF v.t = "str" THEN Quote(v.s) ELSE SprintV(v)
RECURSIVE MarshalPairs(_, _)
MarshalPairs(m, keys) ==
    IF keys = <<>> THEN <<>>
    ELSE Quote(Head(keys)) \o <<":">> \o MarshalValue(MapGet(m, Head(keys)))
         \o (IF Tail(keys) = <<>> THEN <<>> ELSE <<",">> \o MarshalPairs(m, Tail(keys)))
JsonMarshal(data) ==
    IF data.isNil THEN [err |-> FALSE, out |-> <<"n", "u", "l", "l">>]
    ELSE IF \E e \in data.m : e.v.t = "chan" THEN [err |-> TRUE, out |-> <<>>]
    ELSE [err |-> FALSE,
          out |-> <<"{">> \o MarshalPairs(data.m, SortedKeys(MapKeys(data.m))) \o <<"}">>]

(***************************************************************************)
(* net/url: parsing a URL string into a URL value and printing it back.    *)
(***************************************************************************)
NoURL == [Scheme |-> <<>>, Opaque |-> <<>>, Host |-> <<>>, Path |-> <<>>,
          OmitHost |-> FALSE, ForceQuery |-> FALSE, RawQuery |-> <<>>,
          Fragment |-> <<>>]

\* url.getScheme: [err, scheme, rest]
GetScheme(rawURL) ==
    LET stop(i) == ~(IsLetter(rawURL[i])
                     \/ (i > 1 /\ rawURL[i] \in Digits \union {"+", "-", "."}))
        none == [err |-> FALSE, scheme |-> <<>>, rest |-> rawURL]
    IN IF \A i \in 1..Len(rawURL) : ~stop(i) THEN none
       ELSE LET i == CHOOSE j \in 1..Len(rawURL) :
                        stop(j) /\ \A k \in 1..(j - 1) : ~stop(k)
            IN IF rawURL[i] # ":" THEN none
               ELSE IF i = 1 THEN [err |-> TRUE, scheme |-> <<>>, rest |-> <<>>]
               ELSE [err |-> FALSE, scheme |-> SubSeq(rawURL, 1, i - 1),
                     rest |-> From(rawURL, i + 1)]

\* the character a percent-escape stands for ("" if it is no escape)
HexPair(a, b) ==
    CASE a = "2" /\ b = "3" -> "#" [] a = "2" /\ b = "6" -> "&"
      [] a = "2" /\ b = "F" -> "/" [] a = "3" /\ b = "D" -> "="
      [] a = "3" /\ b = "F" -> "?" [] a = "2" /\ b = "0" -> " "
      [] a = "2" /\ b = "5" -> "%" [] OTHER -> ""

\* url.unescape in path mode: [err, out]
RECURSIVE Unescape(_)
Unescape(s) ==
    IF s = <<>> THEN [err |-> FALSE, out |-> <<>>]
    ELSE IF Head(s) # "%"
    THEN Eval(Unescape(Tail(s)),
              LAMBDA r : [err |-> r.err, out |-> <<Head(s)>> \o r.out])
    ELSE IF Len(s) < 3 \/ HexPair(s[2], s[3]) = "" THEN [err |-> TRUE, out |-> <<>>]
    ELSE Eval(Unescape(From(s, 4)),
              LAMBDA r : [err |-> r.err, out |-> <<HexPair(s[2], s[3])>> \o r.out])

\* url.escape in path mode
EscapePathChar(c) ==
    CASE c = "#" -> <<"%", "2", "3">>
      [] c = "?" -> <<"%", "3", "F">>
      [] c = " " -> <<"%", "2", "0">>
      [] c = "%" -> <<"%", "2", "5">>
      [] OTHER -> <<c>>
EscapePath(s) == Concat([i \in 1..Len(s) |-> EscapePathChar(s[i])])

\* url.parseHost (no user info, no IPv6 literal in the alphabet): a port must
\* be digits, and a character that must be escaped in a host is an error.
ParseHostErr(host) ==
    \/ \E i \in 1..Len(host) : host[i] \in {"#", "?", "/", " ", "%"}
    \/ /\ LastIndexOf(host, ":") > 0
       /\ \E i \in (LastIndexOf(host, ":") + 1)..Len(host) : host[i] \notin Digits

\* url.parse, after the scheme: the query is split off at the first "?"
\* (a lone trailing "?" only sets ForceQuery): [rest, force, query]
SplitQuery(rest) ==
    LET q == IndexOf(rest, "?")
        force == rest # <<>> /\ rest[Len(rest)] = "?" /\ Count(rest, "?") = 1
    IN [rest |-> IF force THEN SubSeq(rest, 1, Len(rest) - 1)
                 ELSE IF q = 0 THEN rest ELSE SubSeq(rest, 1, q - 1),
        force |-> force,
        query |-> IF force \/ q = 0 THEN <<>> ELSE From(rest, q + 1)]

\* url.parse: the authority ("//host") is split from the path: [has, host, path]
SplitAuthority(scheme, rest, viaRequest) ==
    LET has == /\ (scheme # <<>>
                   \/ (~viaRequest /\ ~HasPrefix(rest, <<"/", "/", "/">>)))
               /\ HasPrefix(rest, <<"/", "/">>)
        after == From(rest, 3)
        cut == IndexOf(after, "/")
    IN [has |-> has,
        host |-> IF ~has THEN <<>>
                 ELSE IF cut = 0 THEN after ELSE SubSeq(after, 1, cut - 1),
        path |-> IF ~has THEN rest ELSE IF cut = 0 THEN <<>> ELSE From(after, cut)]

\* url.parse(rawURL, viaRequest): [err, u]
URLparse(rawURL, viaRequest) ==
    LET bad == [err |-> TRUE, u |-> NoURL] IN
    IF rawURL = <<>> /\ viaRequest THEN bad
    ELSE Eval(GetScheme(rawURL), LAMBDA sch :
      IF sch.err THEN bad
      ELSE Eval(SplitQuery(sch.rest), LAMBDA sq :
        LET scheme == ToLower(sch.scheme)
            base == [NoURL EXCEPT !.Scheme = scheme, !.ForceQuery = sq.force,
                                  !.RawQuery = sq.query]
            slash == IndexOf(sq.rest, "/")
            segment == IF slash = 0 THEN sq.rest ELSE SubSeq(sq.rest, 1, slash - 1)
        IN
        IF ~HasPrefix(sq.rest, <<"/">>) /\ scheme # <<>>
        THEN [err |-> FALSE, u |-> [base EXCEPT !.Opaque = sq.rest]]
        ELSE IF ~HasPrefix(sq.rest, <<"/">>) /\ viaRequest THEN bad
        ELSE IF ~HasPrefix(sq.rest, <<"/">>) /\ Count(segment, ":") > 0 THEN bad
        ELSE Eval(SplitAuthority(scheme, sq.rest, viaRequest), LAMBDA au :
          IF au.has /\ ParseHostErr(au.host) THEN bad
          ELSE Eval(Unescape(au.path), LAMBDA path :
            IF path.err THEN bad
            ELSE [err |-> FALSE,
                  u |-> [base EXCEPT !.Host = au.host,
                                     !.OmitHost = ~au.has /\ scheme # <<>>
                                                     /\ HasPrefix(sq.rest, <<"/">>),
                                     !.Path = path.out]]))))

\* url.ParseRequestURI(rawURL)
ParseRequestURI(rawURL) == URLparse(rawURL, TRUE)

\* url.Parse(rawURL): the text after the first "#" is the fragment
URLParse(rawURL) ==
    LET h == IndexOf(rawURL, "#") IN
    Eval(URLparse(IF h = 0 THEN rawURL ELSE SubSeq(rawURL, 1, h - 1), FALSE), LAMBDA r :
      Eval(Unescape(IF h = 0 THEN <<>> ELSE From(rawURL, h + 1)), LAMBDA frag :
        IF r.err \/ frag.err THEN [err |-> TRUE, u |-> NoURL]
        ELSE [err |-> FALSE, u |-> [r.u EXCEPT !.Fragment = frag.out]]))

\* (*URL).String()
URLString(u) ==
    LET path == EscapePath(u.Path)
        slash == IndexOf(path, "/")
        segment == IF slash = 0 THEN path ELSE SubSeq(path, 1, slash - 1)
        front == (IF u.Scheme # <<>> THEN u.Scheme \o <<":">> ELSE <<>>)
                 \o (IF (u.Scheme # <<>> \/ u.Host # <<>>)
                        /\ ~(u.OmitHost /\ u.Host = <<>>)
                     THEN (IF u.Host # <<>> \/ u.Path # <<>> THEN <<"/", "/">> ELSE <<>>)
                          \o u.Host
                     ELSE <<>>)
        body == IF u.Opaque # <<>>
                THEN (IF u.Scheme # <<>> THEN u.Scheme \o <<":">> ELSE <<>>) \o u.Opaque
                ELSE front
                     \o (IF path # <<>> /\ path[1] # "/" /\ u.Host # <<>>
                         THEN <<"/">> ELSE <<>>)
                     \o (IF front = <<>> /\ Count(segment, ":") > 0
                         THEN <<".", "/">> ELSE <<>>)
                     \o path
    IN body
       \o (IF u.ForceQuery \/ u.RawQuery # <<>> THEN <<"?">> \o u.RawQuery ELSE <<>>)
       \o (IF u.Fragment # <<>> THEN <<"#">> \o EscapePath(u.Fragment) ELSE <<>>)

(***************************************************************************)
(* net/http: request construction.                                         *)
(***************************************************************************)
\* textproto.CanonicalMIMEHeaderKey: the first letter and every letter after a
\* "-" upper case, the others lower case; a key with a space is left as it is.
CanonicalMIMEHeaderKey(k) ==
    IF \E i \in 1..Len(k) : k[i] = " " THEN k
    ELSE [i \in 1..Len(k) |->
            IF i = 1 \/ k[i - 1] = "-" THEN ToUpperChar(k[i]) ELSE ToLowerChar(k[i])]

\* Header.Set(key, value): values are kept as lists of text pieces
HeaderSet(h, key, value) == MapSet(h, CanonicalMIMEHeaderKey(key), value)
HeaderGet(h, key) ==
    IF CanonicalMIMEHeaderKey(key) \in MapKeys(h)
    THEN MapGet(h, CanonicalMIMEHeaderKey(key)) ELSE <<>>

CookieKey == <<"C", "o", "o", "k", "i", "e">>

\* (*Request).AddCookie(c): appended to the Cookie header, "; " separated
AddCookie(h, c) ==
    IF HeaderGet(h, CookieKey) # <<>>
    THEN HeaderSet(h, CookieKey, HeaderGet(h, CookieKey) \o <<"; ", c>>)
    ELSE HeaderSet(h, CookieKey, <<c>>)

\* http.validMethod: a non-empty token (no space among the characters here)
ValidMethod(method) ==
    Len(method) > 0 /\ \A i \in 1..Len(method) : IsLetter(method[i])

NoReq == [Method |-> <<>>, URL |-> NoURL, Header |-> {}, Body |-> <<>>, made |-> FALSE]

\* http.NewRequest(method, url, body): [err, req]
HttpNewRequest(method, urlStr, body) ==
    LET m == IF method = <<>> THEN <<"G", "E", "T">> ELSE method IN
    Eval(URLParse(urlStr), LAMBDA u :
      LET host == IF u.u.Host # <<>> /\ u.u.Host[Len(u.u.Host)] = ":"
                  THEN SubSeq(u.u.Host, 1, Len(u.u.Host) - 1) ELSE u.u.Host
      IN IF ~ValidMethod(m) \/ u.err THEN [err |-> TRUE, req |-> NoReq]
         ELSE [err |-> FALSE,
               req |-> [Method |-> m, URL |-> [u.u EXCEPT !.Host = host],
                        Header |-> {}, Body |-> body, made |-> TRUE]])

HttpSchemes == {<<"h", "t", "t", "p">>, <<"h", "t", "t", "p", "s">>}

\* Whether the transport can put the request on the network at all: it refuses
\* a URL without a supported scheme or without a host before any I/O.
Sendable(r) == r.URL.Scheme \in HttpSchemes /\ r.URL.Host # <<>>

(***************************************************************************)
(* The options.  An option is a closure over its argument; here it is the  *)
(* record [kind, arg...] and applying it is the operator of the same name. *)
(***************************************************************************)
DefaultTimeout == 3
ContentType == <<"C", "o", "n", "t", "e", "n", "t", "-", "T", "y", "p", "e">>
DefaultHeaders == {Entry(ContentType, "application/json")}

\* variant: the new mapping merged into the old one, key by key
WithHeadersMerge(headers, r) ==
    [r EXCEPT !.Headers = {e \in r.Headers : e.k \notin MapKeys(headers)} \union headers]

WithHeaders(headers, r) == [r EXCEPT !.Headers = headers]

WithTimeout(timeout, r) == [r EXCEPT !.Timeout = timeout]

WithCookies(cookies, r) == [r EXCEPT !.Cookies = cookies]

WithParams(params, r) == [r EXCEPT !.Params = ValuesEncode(params)]

WithPostStringBody(data, r) == [r EXCEPT !.PostBody = data]

\* variants: a parse error returned, a construction error fatal, a send retried
OnParseErrorReturn == "returned"
OnNewRequestErrorPanic == "panicked"
OnSendErrorRetry == "do"

\* the step a call is at after each failure: panic(...) or return nil
OnMarshalError == "panicked"
OnParseError == "panicked"
OnNewRequestError == "returned"
OnSendError == "panicked"

\* WithPostJsonBody(data): [panic, r]
WithPostJsonBody(data, r) ==
    LET m == JsonMarshal(data)
    IN IF m.err THEN [panic |-> TRUE, r |-> r]
       ELSE [panic |-> FALSE, r |-> [r EXCEPT !.PostBody = m.out]]

NoOpt == [kind |-> "", headers |-> {}, timeout |-> 0, cookies |-> <<>>, params |-> {},
          json |-> [isNil |-> TRUE, m |-> {}], body |-> <<>>]
HeadersOpt(h) == [NoOpt EXCEPT !.kind = "headers", !.headers = h]
TimeoutOpt(t) == [NoOpt EXCEPT !.kind = "timeout", !.timeout = t]
CookiesOpt(c) == [NoOpt EXCEPT !.kind = "cookies", !.cookies = c]
ParamsOpt(m) == [NoOpt EXCEPT !.kind = "params", !.params = m]
JsonOpt(d) == [NoOpt EXCEPT !.kind = "json", !.json = d]
BodyOpt(b) == [NoOpt EXCEPT !.kind = "body", !.body = b]

\* opt(RequestIns): [panic, r]
Apply(opt, r) ==
    CASE opt.kind = "headers" -> [panic |-> FALSE, r |-> WithHeaders(opt.headers, r)]
      [] opt.kind = "timeout" -> [panic |-> FALSE, r |-> WithTimeout(opt.timeout, r)]
      [] opt.kind = "cookies" -> [panic |-> FALSE, r |-> WithCookies(opt.cookies, r)]
      [] opt.kind = "params" -> [panic |-> FALSE, r |-> WithParams(opt.params, r)]
      [] opt.kind = "json" -> WithPostJsonBody(opt.json, r)
      [] opt.kind = "body" -> [panic |-> FALSE, r |-> WithPostStringBody(opt.body, r)]

(***************************************************************************)
(* The inputs of a call.                                                   *)
(***************************************************************************)
MaxOptions == 2
MaxDoCalls == 3

XA == <<"x", "-", "a">>
Http == <<"h", "t", "t", "p">>
ChanV == [t |-> "chan", s |-> <<>>, n |-> 0]

HeaderMaps == {{}, {Entry(XA, "v1")},
               {Entry(ToUpper(XA), "v2"), Entry(ContentType, "text/plain")}}
CookieLists == {<<>>, <<"sid=1", "t=2">>}
ParamMaps == {{}, {Entry(<<"a">>, <<"1">>), Entry(<<"b">>, <<"2">>)},
              {Entry(<<"b">>, <<"x", " ", "#">>), Entry(<<"&">>, <<"=">>)}}
JsonMaps == {[isNil |-> TRUE, m |-> {}],
             [isNil |-> FALSE, m |-> {Entry(<<"k">>, StrV(<<"v">>)), Entry(<<"a">>, IntV(12))}],
             [isNil |-> FALSE, m |-> {Entry(<<"k">>, ChanV)}]}
Bodies == {<<"k", "=", "v">>}

Options ==
    {HeadersOpt(h) : h \in HeaderMaps} \union {TimeoutOpt(5)}
    \union {CookiesOpt(c) : c \in CookieLists} \union {ParamsOpt(m) : m \in ParamMaps}
    \union {JsonOpt(d) : d \in JsonMaps} \union {BodyOpt(b) : b \in Bodies}
OptionLists == SeqsUpTo(Options, MaxOptions)

Methods == {<<"g", "e", "t">>, <<"P", "o", "s", "t">>, <<>>, <<"g", " ", "t">>}

URLs == {Http \o <<":", "/", "/", "a", "/", "p">>,
         Http \o <<":", "/", "/", "a", "/", "p", "?", "x", "=", "1">>,
         Http \o <<":", "/", "/", "a", "/", "p", "?">>,
         Http \o <<":", "/", "/", "a", "/", "p", "#", "x", "?", "k">>,
         Http \o <<":", "a", "#", "b">>,
         <<"x", ":", "/", "/", "a", "/", "p">>,
         <<"/", "p", "?", "x">>,
         <<"p">>,
         <<":", "p">>,
         <<>>}

(***************************************************************************)
(* HttpCaller and createRequest, step by step.                             *)
(***************************************************************************)
NoCall == [method |-> <<>>, url |-> <<>>, options |-> <<>>]
NoRequestIns == [Method |-> <<>>, URL |-> <<>>, Headers |-> {}, Cookies |-> <<>>,
                 Timeout |-> 0, PostBody |-> <<>>, Params |-> <<>>]

InitCall ==
    /\ pc = "idle"
    /\ args = NoCall
    /\ RequestIns = NoRequestIns
    /\ optIdx = 0
    /\ urlObj = NoURL
    /\ req = NoReq
    /\ hdrTodo = {}
    /\ doCalls = 0
    /\ wire = <<>>
    /\ ret = "none"
    /\ failure = ""

\* HttpCaller: the descriptor with its defaults
HttpCaller ==
    /\ pc = "idle"
    /\ \E method \in Methods, url \in URLs, options \in OptionLists :
         /\ args' = [method |-> method, url |-> url, options |-> options]
         /\ RequestIns' = [NoRequestIns EXCEPT !.Method = ToUpper(method),
                                               !.URL = url,
                                               !.Timeout = DefaultTimeout,
                                               !.Headers = DefaultHeaders]
    /\ optIdx' = 1
    /\ pc' = "options"
    /\ UNCHANGED <<urlObj, req, hdrTodo, doCalls, wire, ret, failure, muVars, decVars>>

\* HttpCaller: one turn of the loop over the options
ApplyOption ==
    /\ pc = "options"
    /\ optIdx <= Len(args.options)
    /\ \E a \in {Apply(args.options[optIdx], RequestIns)} :
         IF a.panic
         THEN /\ pc' = OnMarshalError
              /\ failure' = "marshal"
              /\ UNCHANGED <<RequestIns, optIdx>>
         ELSE /\ RequestIns' = a.r
              /\ optIdx' = optIdx + 1
              /\ UNCHANGED <<pc, failure>>
    /\ UNCHANGED <<args, urlObj, req, hdrTodo, doCalls, wire, ret, muVars, decVars>>

\* variant: the query of the URL kept when Params is empty
SetRawQueryIfParams(u, params) ==
    IF params = <<>> THEN u ELSE [u EXCEPT !.RawQuery = params]

\* urlObj.RawQuery = requestIns.Params
SetRawQuery(u, params) == [u EXCEPT !.RawQuery = params]

\* createRequest: parse the URL and overwrite its query
ParseURL ==
    /\ pc = "options"
    /\ optIdx > Len(args.options)
    /\ \E p \in {ParseRequestURI(RequestIns.URL)} :
         IF p.err
         THEN /\ pc' = OnParseError
              /\ failure' = "url"
              /\ UNCHANGED urlObj
         ELSE /\ urlObj' = SetRawQuery(p.u, RequestIns.Params)
              /\ pc' = "newRequest"
              /\ UNCHANGED failure
    /\ UNCHANGED <<args, RequestIns, optIdx, req, hdrTodo, doCalls, wire, ret, muVars, decVars>>

\* createRequest: http.NewRequest
NewRequest ==
    /\ pc = "newRequest"
    /\ \E n \in {HttpNewRequest(RequestIns.Method, URLString(urlObj),
                                 RequestIns.PostBody)} :
         IF n.err
         THEN /\ pc' = OnNewRequestError
              /\ failure' = "newRequest"
              /\ ret' = IF OnNewRequestError = "returned" THEN "nil" ELSE ret
              /\ UNCHANGED <<req, hdrTodo>>
         ELSE /\ req' = n.req
              /\ hdrTodo' = RequestIns.Headers
              /\ pc' = "headers"
              /\ UNCHANGED <<failure, ret>>
    /\ UNCHANGED <<args, RequestIns, optIdx, urlObj, doCalls, wire, muVars, decVars>>

\* createRequest: one turn of the range loop over requestIns.Headers
SetHeader ==
    /\ pc = "headers"
    /\ \E e \in hdrTodo :
         /\ req' = [req EXCEPT !.Header = HeaderSet(req.Header, e.k, <<e.v>>)]
         /\ hdrTodo' = hdrTodo \ {e}
    /\ UNCHANGED <<pc, args, RequestIns, optIdx, urlObj, doCalls, wire, ret, failure,
                   muVars, decVars>>

RECURSIVE AddCookies(_, _)
AddCookies(h, cookies) ==
    IF cookies = <<>> THEN h ELSE AddCookies(AddCookie(h, Head(cookies)), Tail(cookies))

\* createRequest: the loop over requestIns.Cookies
AttachCookies ==
    /\ pc = "headers"
    /\ hdrTodo = {}
    /\ req' = [req EXCEPT !.Header = AddCookies(req.Header, RequestIns.Cookies)]
    /\ pc' = "do"
    /\ UNCHANGED <<args, RequestIns, optIdx, urlObj, hdrTodo, doCalls, wire, ret,
                   failure, muVars, decVars>>

\* createRequest: http.DefaultClient.Do(req) answers
DoResponse ==
    /\ pc = "do"
    /\ Sendable(req)
    /\ doCalls' = doCalls + 1
    /\ wire' = Append(wire, req)
    /\ ret' = "response"
    /\ pc' = "returned"
    /\ UNCHANGED <<args, RequestIns, optIdx, urlObj, req, hdrTodo, failure, muVars, decVars>>

\* createRequest: http.DefaultClient.Do(req) fails, before or after the
\* request went out
DoError ==
    /\ pc = "do"
    /\ doCalls < MaxDoCalls
    /\ doCalls' = doCalls + 1
    /\ \E out \in BOOLEAN :
         /\ out => Sendable(req)
         /\ wire' = IF out THEN Append(wire, req) ELSE wire
    /\ failure' = "send"
    /\ pc' = OnSendError
    /\ UNCHANGED <<args, RequestIns, optIdx, urlObj, req, hdrTodo, ret, muVars, decVars>>

NextCall == HttpCaller \/ ApplyOption \/ ParseURL \/ NewRequest \/ SetHeader
            \/ AttachCookies \/ DoResponse \/ DoError

(***************************************************************************)
(* JSON text, as a list of tokens: punctuation, the keys "x" and "y", the  *)
(* numbers 1 and 2, the string "s" and null.                               *)
(***************************************************************************)
JsonKeys == {"\"x\"", "\"y\""}
JsonNumbers == {"1", "2"}
JsonScalars == JsonNumbers \union {"\"s\"", "null"}
NumberOf(tok) == IF tok = "1" THEN 1 ELSE 2
KindOf(tok) == IF tok \in JsonNumbers THEN "num" ELSE IF tok = "null" THEN "null" ELSE "str"

NoValue == [ok |-> FALSE, kind |-> "", tok |-> "", m |-> {}, rest |-> <<>>]

\* the members of an object after "{" or ",": key ":" scalar, then "}" or ","
RECURSIVE ScanMembers(_, _)
ScanMembers(t, m) ==
    IF Len(t) < 4 \/ t[1] \notin JsonKeys \/ t[2] # ":" \/ t[3] \notin JsonScalars
    THEN NoValue
    ELSE IF t[4] = "}"
    THEN [ok |-> TRUE, kind |-> "obj", tok |-> "", m |-> MapSet(m, t[1], t[3]),
          rest |-> From(t, 5)]
    ELSE IF t[4] = "," THEN ScanMembers(From(t, 5), MapSet(m, t[1], t[3]))
    ELSE NoValue

\* the elements of an array after "[" or ","
RECURSIVE ScanElements(_)
ScanElements(t) ==
    IF Len(t) < 2 \/ t[1] \notin JsonScalars THEN NoValue
    ELSE IF t[2] = "]"
    THEN [ok |-> TRUE, kind |-> "arr", tok |-> "", m |-> {}, rest |-> From(t, 3)]
    ELSE IF t[2] = "," THEN ScanElements(From(t, 3))
    ELSE NoValue

\* the first JSON value of a text and what follows it: [ok, kind, tok, m, rest]
ScanValue(t) ==
    IF t = <<>> THEN NoValue
    ELSE IF t[1] \in JsonScalars
    THEN [ok |-> TRUE, kind |-> KindOf(t[1]), tok |-> t[1], m |-> {}, rest |-> Tail(t)]
    ELSE IF t[1] = "{"
    THEN IF Len(t) >= 2 /\ t[2] = "}"
         THEN [ok |-> TRUE, kind |-> "obj", tok |-> "", m |-> {}, rest |-> From(t, 3)]
         ELSE ScanMembers(Tail(t), {})
    ELSE IF t[1] = "["
    THEN IF Len(t) >= 2 /\ t[2] = "]"
         THEN [ok |-> TRUE, kind |-> "arr", tok |-> "", m |-> {}, rest |-> From(t, 3)]
         ELSE ScanElements(Tail(t))
    ELSE NoValue

\* The structure the decoding is checked with: struct{ X int }, whose field
\* the key "x" fills.
FieldKey == "\"x\""

\* FastJsonUnMarshal(data, v) for v a *struct{ X int }: [err, xs], xs the
\* values X may hold afterwards.  The text must be one JSON value and nothing
\* else; null leaves the structure alone; a value of the wrong type is an
\* error.  On an error the library may already have stored what it had
\* decoded.
FastJsonUnMarshal(data, v) ==
    Eval(ScanValue(data), LAMBDA sv :
      LET seen == {NumberOf(data[i]) : i \in {j \in 1..Len(data) : data[j] \in JsonNumbers}}
      IN IF ~sv.ok THEN [err |-> TRUE, xs |-> {v.X} \union seen]
         ELSE IF sv.rest # <<>> THEN [err |-> TRUE, xs |-> {v.X} \union seen]
         ELSE IF sv.kind = "null" THEN [err |-> FALSE, xs |-> {v.X}]
         ELSE IF sv.kind # "obj" THEN [err |-> TRUE, xs |-> {v.X}]
         ELSE IF FieldKey \notin MapKeys(sv.m) THEN [err |-> FALSE, xs |-> {v.X}]
         ELSE IF MapGet(sv.m, FieldKey) = "null" THEN [err |-> FALSE, xs |-> {v.X}]
         ELSE IF MapGet(sv.m, FieldKey) \in JsonNumbers
         THEN [err |-> FALSE, xs |-> {NumberOf(MapGet(sv.m, FieldKey))}]
         ELSE [err |-> TRUE, xs |-> {v.X}])

NilMap == [isNil |-> TRUE, m |-> {}]

\* json.NewDecoder(body).Decode(&ret) for ret a map[string]interface{}:
\* [err, ret].  The decoder reads the first JSON value of the stream and stops
\* there; an object is complete at its "}", a null only at the end of the
\* stream or at the next token.
DecoderDecode(rd) ==
    Eval(ScanValue(rd.data), LAMBDA sv :
      IF ~sv.ok THEN [err |-> TRUE, ret |-> NilMap]
      ELSE IF sv.kind = "obj" THEN [err |-> FALSE, ret |-> [isNil |-> FALSE, m |-> sv.m]]
      ELSE IF sv.kind = "null"
      THEN [err |-> sv.rest = <<>> /\ rd.fails, ret |-> NilMap]
      ELSE [err |-> TRUE, ret |-> NilMap])

(***************************************************************************)
(* The response decoders.                                                  *)
(***************************************************************************)
StatusOK == 200

\* variant: any 2xx status taken as success
StatusIsOKAny2xx(code) == code \div 100 = 2

\* responseIns.StatusCode != http.StatusOK, negated
StatusIsOK(code) == code = StatusOK

\* variant: the body closed on the successful way out only
CloseUnlessError(b, err) == IF err = "" THEN [b EXCEPT !.closes = @ + 1] ELSE b

\* defer responseIns.Body.Close(), run when responseToBytes returns
DeferredClose(b, err) == [b EXCEPT !.closes = @ + 1]

\* ioutil.ReadAll(body): everything up to the end of the stream, or an error
ReadAll(rd) ==
    IF rd.fails THEN [err |-> TRUE, out |-> <<>>] ELSE [err |-> FALSE, out |-> rd.data]

\* responseToBytes(responseIns): [err, out, body], body the stream afterwards
responseToBytes(responseIns, b) ==
    IF ~StatusIsOK(responseIns.StatusCode)
    THEN [err |-> "status", out |-> <<>>, body |-> DeferredClose(b, "status")]
    ELSE IF ReadAll(responseIns.Body).err
    THEN [err |-> "read", out |-> <<>>,
          body |-> DeferredClose([b EXCEPT !.reads = @ + 1], "read")]
    ELSE [err |-> "", out |-> ReadAll(responseIns.Body).out,
          body |-> DeferredClose([b EXCEPT !.reads = @ + 1], "")]

\* variant: the status checked as ResponseToStruct checks it
ResponseToMapChecked(responseIns, b) ==
    IF ~StatusIsOK(responseIns.StatusCode)
    THEN [ret |-> NilMap, body |-> [b EXCEPT !.closes = @ + 1]]
    ELSE [ret |-> DecoderDecode(responseIns.Body).ret,
          body |-> [b EXCEPT !.reads = @ + 1, !.closes = @ + 1]]

\* ResponseToMap(responseIns): [ret, body]
ResponseToMap(responseIns, b) ==
    Eval(DecoderDecode(responseIns.Body), LAMBDA d :
      [ret |-> IF d.err THEN NilMap ELSE d.ret,
       body |-> [b EXCEPT !.reads = @ + 1, !.closes = @ + 1]])

Statuses == {200, 201, 404}
Documents ==
    {<<"{", "\"x\"", ":", "1", "}">>,
     <<"{", "\"y\"", ":", "\"s\"", ",", "\"x\"", ":", "2", "}">>,
     <<"{", "}">>,
     <<"{", "\"x\"", ":", "\"s\"", "}">>,
     <<"{", "\"x\"", ":", "1", "}", "}">>,
     <<"{", "\"x\"", ":", "1", ",">>,
     <<"[", "1", "]">>,
     <<"null">>,
     <<"1">>,
     <<>>}
Streams == [data : Documents, fails : BOOLEAN]
NoStream == [data |-> <<>>, fails |-> FALSE]
Responses == [isNil : {FALSE}, StatusCode : Statuses, Body : Streams]
NilResponse == [isNil |-> TRUE, StatusCode |-> 0, Body |-> NoStream]
Targets == [X : {0, 7}]

NoDecode == [entry |-> "", responseIns |-> NilResponse, v |-> [X |-> 0]]
FreshBody == [reads |-> 0, closes |-> 0]

InitDecode ==
    /\ dPc = "idle"
    /\ dArgs = NoDecode
    /\ stream = FreshBody
    /\ bytes = <<>>
    /\ target = [X |-> 0]
    /\ dErr = ""
    /\ mapRet = NilMap

\* a call of ResponseToStruct(responseIns, v); a nil responseIns is a nil
\* pointer dereference at responseIns.Body
CallResponseToStruct ==
    /\ dPc = "idle"
    /\ \E responseIns \in Responses \union {NilResponse}, v \in Targets :
         /\ dArgs' = [entry |-> "struct", responseIns |-> responseIns, v |-> v]
         /\ target' = v
         /\ dPc' = IF responseIns.isNil THEN "panicked" ELSE "toBytes"
    /\ UNCHANGED <<stream, bytes, dErr, mapRet, muVars, callVars>>

\* ResponseToStruct: responseBytesSlice, err := responseToBytes(responseIns)
ResponseToBytes ==
    /\ dPc = "toBytes"
    /\ \E r \in {responseToBytes(dArgs.responseIns, stream)} :
         /\ stream' = r.body
         /\ bytes' = r.out
         /\ dErr' = r.err
         /\ dPc' = IF r.err # "" THEN "done" ELSE "unmarshal"
    /\ UNCHANGED <<dArgs, target, mapRet, muVars, callVars>>

\* ResponseToStruct: err = FastJsonUnMarshal(responseBytesSlice, v)
Unmarshal ==
    /\ dPc = "unmarshal"
    /\ \E u \in {FastJsonUnMarshal(bytes, target)} :
         /\ \E x \in u.xs : target' = [target EXCEPT !.X = x]
         /\ dErr' = IF u.err THEN "unmarshal" ELSE ""
    /\ dPc' = "done"
    /\ UNCHANGED <<dArgs, stream, bytes, mapRet, muVars, callVars>>

\* a call of ResponseToMap(responseIns)
CallResponseToMap ==
    /\ dPc = "idle"
    /\ \E responseIns \in Responses \union {NilResponse} :
         /\ dArgs' = [entry |-> "map", responseIns |-> responseIns, v |-> [X |-> 0]]
         /\ dPc' = IF responseIns.isNil THEN "panicked" ELSE "decode"
    /\ UNCHANGED <<stream, bytes, target, dErr, mapRet, muVars, callVars>>

\* ResponseToMap: decode, close, return
MapDecode ==
    /\ dPc = "decode"
    /\ \E r \in {ResponseToMap(dArgs.responseIns, stream)} :
         /\ stream' = r.body
         /\ mapRet' = r.ret
    /\ dPc' = "done"
    /\ UNCHANGED <<dArgs, bytes, target, dErr, muVars, callVars>>

NextDecode == CallResponseToStruct \/ ResponseToBytes \/ Unmarshal
              \/ CallResponseToMap \/ MapDecode

(***************************************************************************)
(* Properties of MontageUrl                                                *)
(***************************************************************************)
StartsWithSlash(apiUrl) == Len(apiUrl) > 0 /\ apiUrl[1] = "/"

\* What the assembled URL is specified to be: the zero-segment URL followed by
\* "/" and the printed segment, for each segment in the order given.
Assembled(host, apiUrl, pathParam) ==
    Https \o host \o apiUrl
        \o Concat([i \in 1..Len(pathParam) |-> <<"/">> \o SprintV(pathParam[i])])

\* C1: for a path that starts with "/" and does not contain host, MontageUrl
\* returns "https://" + host + path followed by "/" + segment for each segment
\* in order; with no segment it returns exactly "https://" + host + path.
C1_AssemblesInOrder ==
    (muPc # "idle" /\ StartsWithSlash(muArgs.apiUrl)
                   /\ ~Contains(muArgs.apiUrl, muArgs.host))
    => /\ muPc = "returned"
       /\ muRet = Assembled(muArgs.host, muArgs.apiUrl, muArgs.pathParam)
       /\ (muArgs.pathParam = <<>> => muRet = Https \o muArgs.host \o muArgs.apiUrl)

C1_Witness ==
    /\ muPc = "returned"
    /\ StartsWithSlash(muArgs.apiUrl)
    /\ ~Contains(muArgs.apiUrl, muArgs.host)
    /\ Len(muArgs.pathParam) = 2
    /\ muArgs.pathParam[1] = IntV(334)
    /\ muArgs.pathParam[2] = StrV(<<"a">>)
    /\ muRet = Https \o muArgs.host \o muArgs.apiUrl \o <<"/", "3", "3", "4", "/", "a">>

\* C2: for a path that does not start with "/" (the empty path included) or
\* that contains host, MontageUrl returns the empty string and fails in no
\* other way.
C2_InvalidPathReturnsEmpty ==
    (muPc # "idle" /\ (~StartsWithSlash(muArgs.apiUrl)
                        \/ Contains(muArgs.apiUrl, muArgs.host)))
    => (muPc = "returned" /\ muRet = <<>>)

(***************************************************************************)
(* Properties of HttpCaller                                                *)
(***************************************************************************)
Finished == pc \in {"returned", "panicked"}
Applied == optIdx - 1               \* the number of options applied so far
OptionsDone == pc \notin {"idle", "options"} /\ failure # "marshal"
Constructed == pc \in {"headers", "do"} \/ failure = "send" \/ ret = "response"
HeadersAttached == pc = "do" \/ failure = "send" \/ ret = "response"

\* the last of the first n options whose kind is in kinds, 0 if none
LastOf(kinds, n) ==
    IF \E i \in 1..n : args.options[i].kind \in kinds
    THEN CHOOSE i \in 1..n : /\ args.options[i].kind \in kinds
                             /\ \A j \in (i + 1)..n : args.options[j].kind \notin kinds
    ELSE 0

\* the descriptor that "last option wins, else the default" describes, after
\* the first n options
Described(n) ==
    LET h == LastOf({"headers"}, n)
        t == LastOf({"timeout"}, n)
        c == LastOf({"cookies"}, n)
        q == LastOf({"params"}, n)
        b == LastOf({"json", "body"}, n)
    IN [Method |-> ToUpper(args.method),
        URL |-> args.url,
        Headers |-> IF h = 0 THEN {Entry(ContentType, "application/json")}
                    ELSE args.options[h].headers,
        Timeout |-> IF t = 0 THEN 3 ELSE args.options[t].timeout,
        Cookies |-> IF c = 0 THEN <<>> ELSE args.options[c].cookies,
        Params |-> IF q = 0 THEN <<>> ELSE ValuesEncode(args.options[q].params),
        PostBody |-> IF b = 0 THEN <<>>
                     ELSE IF args.options[b].kind = "body" THEN args.options[b].body
                     ELSE JsonMarshal(args.options[b].json).out]

\* the keys of an earlier header mapping (or the default one) that the last
\* mapping does not hold
Superseded ==
    LET h == LastOf({"headers"}, Len(args.options))
        earlier == UNION ({MapKeys(DefaultHeaders)}
                          \union {MapKeys(args.options[i].headers) : i \in 1..(h - 1)})
    IN IF h = 0 THEN {}
       ELSE {CanonicalMIMEHeaderKey(k) : k \in earlier}
             \ {CanonicalMIMEHeaderKey(k) : k \in MapKeys(args.options[h].headers)}

\* C3: the options are applied in the order given and each descriptor field
\* holds the value of the last option that touched it, or its default; the
\* outbound request carries that method and body, and its headers are those of
\* the last header mapping alone (plus the Cookie header the cookies make):
\* no key of an earlier mapping or of the default mapping is carried over.
C3_LastOptionWins ==
    /\ (pc # "idle" => RequestIns = Described(Applied))
    /\ HeadersAttached =>
         /\ req.Body = RequestIns.PostBody
         /\ req.Method = IF RequestIns.Method = <<>> THEN <<"G", "E", "T">>
                         ELSE RequestIns.Method
         /\ MapKeys(req.Header) =
               {CanonicalMIMEHeaderKey(k) : k \in MapKeys(RequestIns.Headers)}
               \union (IF RequestIns.Cookies = <<>> THEN {} ELSE {CookieKey})
         /\ \A e \in req.Header :
               e.k # CookieKey =>
                 \E f \in RequestIns.Headers :
                    CanonicalMIMEHeaderKey(f.k) = e.k /\ e.v = <<f.v>>
         /\ MapKeys(req.Header) \cap Superseded = {}

C3_Witness ==
    /\ pc = "returned" /\ ret = "response"
    /\ Len(args.options) = 2
    /\ args.options[1] = HeadersOpt({Entry(ToUpper(XA), "v2"), Entry(ContentType, "text/plain")})
    /\ args.options[2] = HeadersOpt({Entry(XA, "v1")})
    /\ wire # <<>>
    /\ wire[1].Header = {Entry(<<"X", "-", "A">>, <<"v1">>)}

\* C7 as stated: every call performs exactly one Do, never zero.
C7_ExactlyOneSend == Finished => doCalls = 1

\* C7 amended: a call performs at most one Do and never retries: exactly one
\* when it gets as far as the send step, none when it ended before it (an
\* option panicked, the URL did not parse, the request could not be built).
C7_AtMostOneSend ==
    /\ doCalls <= 1
    /\ Len(wire) <= doCalls
    /\ Finished => doCalls = IF failure \in {"marshal", "url", "newRequest"} THEN 0 ELSE 1
    /\ (pc \in {"idle", "options", "newRequest", "headers", "do"} /\ failure = "")
          => doCalls = 0

C7_Witness == pc = "panicked" /\ failure = "send" /\ doCalls = 1 /\ Len(wire) = 1

MarshalFails(opt) == opt.kind = "json" /\ \E e \in opt.json.m : e.v.t = "chan"

C8_FatalState ==
    /\ failure = "marshal" =>
         /\ pc = "panicked" /\ ret = "none"
         /\ MarshalFails(args.options[optIdx])
         /\ RequestIns = Described(Applied)
         /\ urlObj = NoURL /\ ~req.made /\ doCalls = 0 /\ wire = <<>>
    /\ failure = "url" =>
         /\ pc = "panicked" /\ ret = "none"
         /\ ParseRequestURI(args.url).err
         /\ urlObj = NoURL /\ ~req.made /\ doCalls = 0 /\ wire = <<>>
    /\ failure = "send" => (pc = "panicked" /\ ret = "none" /\ doCalls = 1)
    /\ \A i \in 1..Applied : ~MarshalFails(args.options[i])
    /\ (OptionsDone /\ ParseRequestURI(args.url).err) => failure = "url"
    /\ ret # "none" => pc = "returned"

\* C8: a JSON marshal failure in WithPostJsonBody, a malformed URL and a
\* transport failure each make the call panic at that point: no later step
\* runs (the state of a panicked call never changes again) and no response is
\* returned.
C8_FailuresAreFatal ==
    [](C8_FatalState) /\ [][pc = "panicked" => UNCHANGED vars]_vars

C8_Witness ==
    /\ pc = "panicked" /\ failure = "marshal"
    /\ Len(args.options) = 2 /\ optIdx = 1
    /\ args.options[2].kind = "headers"
    /\ RequestIns.Headers = DefaultHeaders

\* C9: once the URL has parsed, its query is the descriptor's Params, empty or
\* not; every request that can go out or went out has exactly Params as its
\* query, so a query in the URL given to HttpCaller is dropped and without
\* WithParams the query is empty.
C9_QueryIsParams ==
    /\ (pc \in {"newRequest", "headers", "do"} \/ failure \in {"newRequest", "send"}
        \/ ret = "response") => urlObj.RawQuery = RequestIns.Params
    /\ (req.made /\ Sendable(req)) => req.URL.RawQuery = RequestIns.Params
    /\ \A i \in 1..Len(wire) :
         /\ wire[i].URL.RawQuery = RequestIns.Params
         /\ LastOf({"params"}, Len(args.options)) = 0 => wire[i].URL.RawQuery = <<>>

C9_Witness ==
    /\ ret = "response"
    /\ args.url = Http \o <<":", "/", "/", "a", "/", "p", "?", "x", "=", "1">>
    /\ args.options = <<>>
    /\ wire[1].URL.RawQuery = <<>>
    /\ wire[1].URL.Path = <<"/", "p">>

\* C10: if the URL parses but http.NewRequest fails, HttpCaller returns nil
\* without panicking, with no header or cookie set and nothing sent; and a
\* call returns nil on no other path.
C10_NilOnlyOnNewRequestError ==
    /\ failure = "newRequest" =>
         /\ pc = "returned" /\ ret = "nil"
         /\ ~ParseRequestURI(args.url).err
         /\ ~req.made /\ req.Header = {} /\ doCalls = 0 /\ wire = <<>>
    /\ (pc = "returned" /\ ret # "response") => (ret = "nil" /\ failure = "newRequest")
    /\ (Constructed /\ failure # "newRequest") =>
          ValidMethod(IF RequestIns.Method = <<>> THEN <<"G", "E", "T">>
                      ELSE RequestIns.Method)

C10_Witness ==
    /\ pc = "returned" /\ ret = "nil"
    /\ args.method = <<"g", " ", "t">>
    /\ RequestIns.Cookies # <<>>
    /\ RequestIns.Headers # {}

(***************************************************************************)
(* Properties of the response decoders                                     *)
(***************************************************************************)
Given == dArgs.responseIns
ByStruct == dArgs.entry = "struct" /\ ~Given.isNil
ByMap == dArgs.entry = "map" /\ ~Given.isNil

\* the text is one JSON value that a struct{ X int } accepts: null, or an
\* object whose "x", if it has one, is a number or null
ValidForTarget(data) ==
    LET sv == ScanValue(data) IN
      /\ sv.ok /\ sv.rest = <<>>
      /\ \/ sv.kind = "null"
         \/ /\ sv.kind = "obj"
            /\ \A e \in sv.m : e.k = FieldKey => e.v \in JsonNumbers \union {"null"}

\* the structure v after a text that is valid for it has been stored in it
Populated(v, data) ==
    LET sv == ScanValue(data) IN
      IF \E e \in sv.m : e.k = FieldKey /\ e.v \in JsonNumbers
      THEN [X |-> NumberOf((CHOOSE e \in sv.m : e.k = FieldKey).v)]
      ELSE v

\* C4: on a status other than 200 ResponseToStruct returns an error whatever
\* the body is, reads nothing from the body and leaves the target alone; on
\* status 200 with a body that reads to its end and is valid JSON for the
\* target, it fills the target and returns nil.
C4_StructChecksStatus ==
    ByStruct =>
      /\ Given.StatusCode # 200 =>
           /\ dPc \in {"toBytes", "done"}
           /\ stream.reads = 0
           /\ target = dArgs.v
           /\ dPc = "done" => dErr = "status"
      /\ (Given.StatusCode = 200 /\ ~Given.Body.fails /\ ValidForTarget(Given.Body.data)
             /\ dPc = "done")
           => (dErr = "" /\ target = Populated(dArgs.v, Given.Body.data))

C4_Witness ==
    /\ ByStruct /\ dPc = "done"
    /\ Given.StatusCode = 404
    /\ Given.Body = [data |-> <<"{", "\"x\"", ":", "1", "}">>, fails |-> FALSE]
    /\ dErr = "status"
    /\ target = [X |-> 7]

\* C5: ResponseToMap looks at no status code: whatever the status, it returns
\* the decoded map when the body is a JSON object and nil, without an error or
\* a panic, when the body does not decode; so on a non-200 response with a
\* JSON object as body ResponseToStruct fails and ResponseToMap succeeds.
C5_MapIgnoresStatus ==
    /\ ByMap =>
         /\ dPc \in {"decode", "done"}
         /\ dPc = "done" =>
              LET sv == ScanValue(Given.Body.data) IN
                IF sv.ok /\ sv.kind = "obj"
                THEN mapRet = [isNil |-> FALSE, m |-> sv.m]
                ELSE mapRet = NilMap
    /\ (ByStruct /\ dPc = "done" /\ Given.StatusCode # 200) => dErr # ""

C5_Witness ==
    /\ ByMap /\ dPc = "done"
    /\ Given.StatusCode = 404
    /\ Given.Body.data = <<"{", "\"x\"", ":", "1", "}">>
    /\ mapRet = [isNil |-> FALSE, m |-> {Entry("\"x\"", "1")}]

\* C6: both decoders close the body exactly once on every way out (success,
\* wrong status, read error, unmarshal or decode failure) and read it at most
\* once: ResponseToStruct has closed it before it unmarshals, and reads it
\* unless the status is wrong; ResponseToMap always reads it.
C6_BodyClosedOnce ==
    /\ stream.closes <= 1
    /\ stream.reads <= 1
    /\ dPc \in {"unmarshal", "done"} =>
         /\ stream.closes = 1
         /\ stream.reads = IF ByStruct /\ Given.StatusCode # 200 THEN 0 ELSE 1
    /\ dPc \in {"idle", "toBytes", "decode"} => stream.closes = 0

C6_Witness ==
    /\ ByStruct /\ dPc = "done"
    /\ dErr = "read"
    /\ stream = [reads |-> 1, closes |-> 1]

(***************************************************************************)
(* Specifications                                                          *)
(***************************************************************************)
Init == InitMontage /\ InitCall /\ InitDecode

NextUrl == CallMontageUrl

SpecUrl == Init /\ [][NextUrl]_vars

SpecCall == Init /\ [][NextCall]_vars

SpecDecode == Init /\ [][NextDecode]_vars

=============================================================================
